---------------------------- MODULE Spec2Model ----------------------------
(* Haley voice assistant, browser client.                                  *)
(*                                                                         *)
(* Two variants of the client script exist in the repository:              *)
(*   "script"   src/static/script.js     plays chunks as they arrive       *)
(*   "part_001" src/unnamed/part_001     buffers chunks, plays at audio_end*)
(*                                       and filters echoes of the         *)
(*                                       assistant's text                  *)
(* and one audio worklet, src/unnamed/part_000 (AudioCaptureProcessor).    *)
(*                                                                         *)
(* The browser is single threaded: every action below is one task of the   *)
(* event loop (a callback with the microtasks it leaves behind).  The      *)
(* places where the source awaits a timer, a decode or the end of a sound  *)
(* are the boundaries between actions.                                     *)
EXTENDS Integers, Sequences, FiniteSets, TLC

VARIABLES
    variant,            \* which script is loaded: "script" or "part_001"
    socket,             \* let socket: 0 is null, else the id of a WebSocket
    sockState,          \* readyState of every WebSocket ever constructed
    recognition,        \* let recognition: 0 is null, else a recognizer id
    recState,           \* the started flag of every SpeechRecognition object
    isListening,        \* let isListening
    isSpeaking,         \* let isSpeaking
    isPlaying,          \* let isPlaying
    audioContext,       \* let audioContext: 0 is null, else a context id
    ctxState,           \* state of every AudioContext ever constructed
    audioQueue,         \* let audioQueue: sequence of chunk ids
    lastAssistantText,  \* let lastAssistantText (part_001 only)
    timers,             \* pending setTimeout callbacks, by kind
    waiters,            \* audio_end handlers suspended in an await, by place
    plays,              \* script: playAudioQueue invocations past their first await
    player,             \* part_001: the single HTML5 audioPlayer element
    nChunks,            \* number of audio_chunk messages received so far
    sinceStart,         \* chunks received since the latest audio_start, or -1
    turn,               \* the turn state as the specification defines it
    ev,                 \* what the last task put out
    capBuffer,          \* AudioCaptureProcessor.buffer
    capPosted,          \* messages posted on the worklet port, oldest first
    capReceived,        \* number of samples the device has delivered
    capStale,           \* samples of the buffer that arrived outside Listening
    capCalls,           \* number of process() calls so far
    echoUser,           \* isEcho on its own: the userText argument
    echoAssistant,      \* isEcho on its own: the assistantText argument
    echoResult          \* isEcho on its own: "unchecked", "echo" or "other"

progVars == <<socket, sockState, recognition, recState, isListening, isSpeaking,
              isPlaying, audioContext, ctxState, audioQueue, lastAssistantText,
              timers, waiters, plays, player>>
capVars == <<capBuffer, capPosted, capReceived, capStale, capCalls>>
echoVars == <<echoUser, echoAssistant, echoResult>>
vars == <<variant, progVars, nChunks, sinceStart, turn, ev, capVars, echoVars>>

---------------------------------------------------------------------------
(* Bounds of the model *)

\* Spec: WebSocket objects (sessions) ever constructed
MaxSessions == 1
\* Spec: audio_chunk messages ever received
MaxChunks == 2
\* SpecSessions: WebSocket objects (sessions) ever constructed
ManySessions == 2
\* SpecSessions: audio_chunk messages ever received
FewChunks == 1
\* pending timers of one kind
MaxTimers == 1
\* audio_end handlers suspended at one place
MaxWaiters == 1
\* playAudioQueue invocations in flight (script)
MaxPlays == 2
\* process() calls of the capture worklet
MaxCalls == 4
\* a sample is a multiple of 1 / SampleUnit
SampleUnit == 4

Ids == 1..ManySessions

---------------------------------------------------------------------------
(* Text: a string is a sequence of one-character strings *)

Lowers == <<"a","b","c","d","e","f","g","h","i","j","k","l","m",
            "n","o","p","q","r","s","t","u","v","w","x","y","z">>
Uppers == <<"A","B","C","D","E","F","G","H","I","J","K","L","M",
            "N","O","P","Q","R","S","T","U","V","W","X","Y","Z">>
Digits == {"0","1","2","3","4","5","6","7","8","9"}
Spaces == {" ", "\t", "\n"}

Range(f) == {f[i] : i \in DOMAIN f}

\* String.prototype.toLowerCase, one character
toLowerCase(c) ==
    IF c \in Range(Uppers)
    THEN Lowers[CHOOSE i \in DOMAIN Uppers : Uppers[i] = c]
    ELSE c

\* String.prototype.trim
RECURSIVE trimLeft(_)
trimLeft(t) ==
    IF t # <<>> /\ Head(t) \in Spaces THEN trimLeft(Tail(t)) ELSE t

RECURSIVE trimRight(_)
trimRight(t) ==
    IF t # <<>> /\ t[Len(t)] \in Spaces
    THEN trimRight(SubSeq(t, 1, Len(t) - 1))
    ELSE t

trim(t) == trimRight(trimLeft(t))

\* .replace(/\s+/g, ' ')
RECURSIVE collapseSpaces(_)
collapseSpaces(t) ==
    IF t = <<>> THEN <<>>
    ELSE IF Head(t) \in Spaces
         THEN <<" ">> \o collapseSpaces(trimLeft(t))
         ELSE <<Head(t)>> \o collapseSpaces(Tail(t))

\* normalizeText inside isEcho
normalizeText(text) ==
    LET lower == [i \in DOMAIN text |-> toLowerCase(text[i])]
        kept  == SelectSeq(lower, LAMBDA c : c \in Range(Lowers) \cup Digits \cup Spaces)
    IN trim(collapseSpaces(kept))

\* String.prototype.includes
includes(a, b) ==
    \E i \in 0..(Len(a) - Len(b)) : SubSeq(a, i + 1, i + Len(b)) = b

\* String.prototype.split(' '): always at least one (possibly empty) word
RECURSIVE split(_)
split(t) ==
    IF \A i \in DOMAIN t : t[i] # " " THEN <<t>>
    ELSE LET k == CHOOSE i \in DOMAIN t :
                      t[i] = " " /\ \A j \in 1..(i - 1) : t[j] # " "
         IN <<SubSeq(t, 1, k - 1)>> \o split(SubSeq(t, k + 1, Len(t)))

\* isEcho without the minimum length of the user text
isEchoNoMinLength(userText, assistantText) ==
    IF assistantText = <<>> THEN FALSE
    ELSE LET normalUser      == normalizeText(userText)
             normalAssistant == normalizeText(assistantText)
             userWords       == split(normalUser)
             assistantWords  == split(normalAssistant)
             matchCount      == Cardinality({i \in DOMAIN userWords :
                                    /\ Len(userWords[i]) > 2
                                    /\ userWords[i] \in Range(assistantWords)})
         IN IF includes(normalAssistant, normalUser)
               \/ includes(normalUser, normalAssistant) THEN TRUE
            ELSE matchCount * 10 > 6 * Len(userWords)

\* isEcho(userText, assistantText)
isEcho(userText, assistantText) ==
    IF assistantText = <<>> THEN FALSE
    ELSE LET normalUser      == normalizeText(userText)
             normalAssistant == normalizeText(assistantText)
             userWords       == split(normalUser)
             assistantWords  == split(normalAssistant)
             matchCount      == Cardinality({i \in DOMAIN userWords :
                                    /\ Len(userWords[i]) > 2
                                    /\ userWords[i] \in Range(assistantWords)})
         IN IF Len(normalUser) < 5 THEN FALSE
            ELSE IF includes(normalAssistant, normalUser)
                    \/ includes(normalUser, normalAssistant) THEN TRUE
            ELSE matchCount * 10 > 6 * Len(userWords)

\* The texts the model's server and recognizer produce
TxtHelloThere == <<"H","e","l","l","o"," ","t","h","e","r","e","!">>
TxtHello      == <<" ","h","e","l","l","o","."," ">>
TxtYes        == <<"y","e","s">>
TxtBlank      == <<" "," ">>

AssistantTexts == {TxtHelloThere}
UserTexts == {TxtHello, TxtYes, TxtBlank}

---------------------------------------------------------------------------
(* The program state as one record, so that a handler is a function from   *)
(* state to state and handlers compose the way the calls in the source do. *)
(* The last four fields are the outputs of the running task.               *)

Cur ==
    [socket |-> socket, sockState |-> sockState,
     recognition |-> recognition, recState |-> recState,
     isListening |-> isListening, isSpeaking |-> isSpeaking,
     isPlaying |-> isPlaying,
     audioContext |-> audioContext, ctxState |-> ctxState,
     audioQueue |-> audioQueue, lastAssistantText |-> lastAssistantText,
     timers |-> timers, waiters |-> waiters, plays |-> plays, player |-> player,
     sent |-> FALSE, started |-> FALSE, threw |-> FALSE, stops |-> 0]

Bounded(s) ==
    /\ \A k \in DOMAIN s.timers : s.timers[k] <= MaxTimers
    /\ \A k \in DOMAIN s.waiters : s.waiters[k] <= MaxWaiters
    /\ Len(s.plays) <= MaxPlays

Commit(s) ==
    /\ Bounded(s)
    /\ socket' = s.socket
    /\ sockState' = s.sockState
    /\ recognition' = s.recognition
    /\ recState' = s.recState
    /\ isListening' = s.isListening
    /\ isSpeaking' = s.isSpeaking
    /\ isPlaying' = s.isPlaying
    /\ audioContext' = s.audioContext
    /\ ctxState' = s.ctxState
    /\ audioQueue' = s.audioQueue
    /\ lastAssistantText' = s.lastAssistantText
    /\ timers' = s.timers
    /\ waiters' = s.waiters
    /\ plays' = s.plays
    /\ player' = s.player

\* setTimeout(callback, ms): one more pending timer of that kind
setTimeout(s, kind) ==
    [s EXCEPT !.timers[kind] = @ + 1]

---------------------------------------------------------------------------
(* The recognizer (Web Speech API).  A SpeechRecognition object is         *)
(* "started" from start() until its end event has been dispatched;         *)
(* "stopping" is started with stop() called or an error raised, the end    *)
(* event still to come.  start() throws InvalidStateError unless "idle".   *)

\* recognition.start() inside try { } catch (e) { }
tryStart(s) ==
    IF s.recState[s.recognition] = "idle"
    THEN [s EXCEPT !.recState[s.recognition] = "started", !.started = TRUE]
    ELSE s

\* recognition.start() with nothing to catch the exception
bareStart(s) ==
    IF s.recState[s.recognition] = "idle"
    THEN [s EXCEPT !.recState[s.recognition] = "started", !.started = TRUE]
    ELSE [s EXCEPT !.threw = TRUE]

\* recognition.stop()
recStop(s) ==
    IF s.recState[s.recognition] = "started"
    THEN [s EXCEPT !.recState[s.recognition] = "stopping"]
    ELSE s

\* the body of the 100 ms timers of onerror and onend
restartCallback(s) ==
    IF s.isListening /\ s.recognition # 0 THEN tryStart(s) ELSE s

\* a cool-down callback that tests what the restart timers test
cooldownCallbackAsRestart(s) ==
    IF s.isListening /\ s.recognition # 0 THEN tryStart(s) ELSE s

\* the body of the 500 ms timer of the audio_end handler
cooldownCallback(s) ==
    IF s.recognition # 0 /\ s.isListening /\ ~s.isSpeaking THEN tryStart(s) ELSE s

\* an onend that leaves the restart to somebody else
onendNoRestart(s) == s

\* recognition.onend
onend(s) ==
    IF s.isListening THEN setTimeout(s, "restart") ELSE s

\* recognition.onerror
onerror(s, error) ==
    IF error = "no-speech" THEN setTimeout(s, "restart") ELSE s

\* sendMessage(text)
sendMessage(s) ==
    IF s.socket # 0 /\ s.sockState[s.socket] = "open"
    THEN LET s1 == [s EXCEPT !.sent = TRUE]
         IN IF s1.recognition # 0 THEN recStop(s1) ELSE s1
    ELSE s

\* onresult without the echo detection (as in script.js)
onresultNoEchoCheck(s, final) ==
    IF s.isSpeaking THEN s
    ELSE IF trim(final) = <<>> THEN s
    ELSE sendMessage(s)

\* recognition.onresult: final is the concatenation of the final transcripts
\* of the event, <<>> when the event carries interim results only
onresult(s, final) ==
    IF s.isSpeaking THEN s
    ELSE IF trim(final) = <<>> THEN s
    ELSE IF variant = "part_001" /\ isEcho(trim(final), s.lastAssistantText) THEN s
    ELSE sendMessage(s)

---------------------------------------------------------------------------
(* stopConversation *)

\* stopConversation without the null check before recognition.stop(): on a
\* null recognition the call throws and the rest is skipped
stopConversationUnguarded(s) ==
    LET s1 == [s EXCEPT !.isListening = FALSE, !.stops = @ + 1]
    IN IF s1.recognition = 0
       THEN [s1 EXCEPT !.threw = TRUE]
       ELSE LET s2 == [recStop(s1) EXCEPT !.recognition = 0]
                s3 == IF s2.socket # 0 /\ s2.sockState[s2.socket] = "open"
                      THEN [s2 EXCEPT !.sockState[s2.socket] = "closing"]
                      ELSE s2
                s4 == [s3 EXCEPT !.socket = 0]
                s5 == IF s4.audioContext # 0
                      THEN [s4 EXCEPT !.ctxState[s4.audioContext] = "closed",
                                      !.audioContext = 0]
                      ELSE s4
            IN [s5 EXCEPT !.audioQueue = <<>>, !.isPlaying = FALSE]

\* stopConversation that stops the recognizer but keeps the reference to it
stopConversationKeepsRecognizer(s) ==
    LET s1 == [s EXCEPT !.isListening = FALSE, !.stops = @ + 1]
        s2 == IF s1.recognition # 0 THEN recStop(s1) ELSE s1
        s3 == IF s2.socket # 0 /\ s2.sockState[s2.socket] = "open"
              THEN [s2 EXCEPT !.sockState[s2.socket] = "closing"]
              ELSE s2
        s4 == [s3 EXCEPT !.socket = 0]
        s5 == IF s4.audioContext # 0
              THEN [s4 EXCEPT !.ctxState[s4.audioContext] = "closed",
                              !.audioContext = 0]
              ELSE s4
    IN [s5 EXCEPT !.audioQueue = <<>>, !.isPlaying = FALSE]

stopConversation(s) ==
    LET s1 == [s EXCEPT !.isListening = FALSE, !.stops = @ + 1]
        s2 == IF s1.recognition # 0
              THEN [recStop(s1) EXCEPT !.recognition = 0]
              ELSE s1
        s3 == IF s2.socket # 0 /\ s2.sockState[s2.socket] = "open"
              THEN [s2 EXCEPT !.sockState[s2.socket] = "closing"]
              ELSE s2
        s4 == [s3 EXCEPT !.socket = 0]
        s5 == IF s4.audioContext # 0
              THEN [s4 EXCEPT !.ctxState[s4.audioContext] = "closed",
                              !.audioContext = 0]
              ELSE s4
    IN [s5 EXCEPT !.audioQueue = <<>>, !.isPlaying = FALSE]

---------------------------------------------------------------------------
(* Playback, script.js: queueAudioChunk / playAudioQueue.                  *)
(* A playAudioQueue invocation that has reached an await is an element of  *)
(* plays: "resume" awaits audioContext.resume(), "decode" awaits           *)
(* decodeAudioData of its combined unit, "sound" is a started source that  *)
(* has not ended.                                                          *)

RemoveAt(q, i) == SubSeq(q, 1, i - 1) \o SubSeq(q, i + 1, Len(q))

\* the tail of the audio_end case, after its await
audioEndTail(s) ==
    LET s1 == [s EXCEPT !.isSpeaking = FALSE]
    IN IF s1.isListening THEN setTimeout(s1, "cooldown") ELSE s1

\* catch (e) of playAudioQueue
playCatch(s) ==
    LET s1 == [s EXCEPT !.isPlaying = FALSE]
    IN IF Len(s1.audioQueue) > 0 THEN setTimeout(s1, "retry") ELSE s1

\* playAudioQueue from combineArrayBuffers to the await of decodeAudioData
combineAndDecode(s) ==
    LET unit == s.audioQueue
        s1   == [s EXCEPT !.audioQueue = <<>>]
    IN IF s1.audioContext = 0
       THEN playCatch(s1)
       ELSE [s1 EXCEPT !.plays = Append(@, [ph |-> "decode", unit |-> unit,
                                            ctx |-> s1.audioContext])]

\* playAudioQueue up to its first await
playAudioQueue(s, suspended) ==
    IF Len(s.audioQueue) = 0 \/ s.audioContext = 0
    THEN [s EXCEPT !.isPlaying = FALSE]
    ELSE LET s1 == [s EXCEPT !.isPlaying = TRUE]
         IN IF suspended
            THEN [s1 EXCEPT !.plays = Append(@, [ph |-> "resume", unit |-> <<>>,
                                                 ctx |-> s1.audioContext])]
            ELSE combineAndDecode(s1)

\* queueAudioChunk(base64Data)
queueAudioChunk(s, chunk, suspended) ==
    LET s1 == [s EXCEPT !.audioQueue = Append(@, chunk)]
    IN IF ~s1.isPlaying THEN playAudioQueue(s1, suspended) ELSE s1

\* playAudioQueue after decodeAudioData has settled
decodeSettled(s, i, ok) ==
    LET s1 == [s EXCEPT !.plays = RemoveAt(@, i)]
    IN IF ok /\ s1.audioContext # 0
       THEN [s1 EXCEPT !.plays = Append(@, [ph |-> "sound", unit |-> s.plays[i].unit,
                                            ctx |-> s1.audioContext])]
       ELSE playCatch(s1)

\* source.onended
sourceOnended(s, i, suspended) ==
    LET s1 == [s EXCEPT !.plays = RemoveAt(@, i)]
    IN IF Len(s1.audioQueue) > 0
       THEN playAudioQueue(s1, suspended)
       ELSE [s1 EXCEPT !.isPlaying = FALSE]

\* waitForAudioEnd up to its first await: which timer it waits on
waitForAudioEnd(s) ==
    IF s.isPlaying \/ Len(s.audioQueue) > 0
    THEN [s EXCEPT !.waiters.poll = @ + 1]
    ELSE [s EXCEPT !.waiters.delay = @ + 1]

\* one turn of the while loop of waitForAudioEnd, when its 100 ms timer fires
pollTick(s) ==
    IF s.isPlaying \/ Len(s.audioQueue) > 0
    THEN s
    ELSE [s EXCEPT !.waiters.poll = @ - 1, !.waiters.delay = @ + 1]

---------------------------------------------------------------------------
(* Playback, part_001: bufferAudioChunk / playCompleteAudio on the one     *)
(* audioPlayer element.  player.st is "loading" from play() until its      *)
(* promise settles and "playing" until the element ends; player.owner is   *)
(* who called play(); player.cbSet says audioPlayer.onended is assigned and *)
(* player.cbLive that the promise its callback resolves is still pending.  *)

\* audioPlayer.src = ...: the load algorithm rejects a pending play()
\* promise; for a promise of playCompleteAudio its catch resolves the
\* handler, whose tail then runs
setSrc(s) ==
    IF s.player.st = "loading" /\ s.player.owner = "handler" /\ s.player.cbLive
    THEN audioEndTail([s EXCEPT !.isPlaying = FALSE, !.player.cbLive = FALSE])
    ELSE s

\* playCompleteAudio from combineArrayBuffers to the returned promise
startPlayback(s) ==
    LET unit == s.audioQueue
        s1   == setSrc([s EXCEPT !.audioQueue = <<>>])
    IN [s1 EXCEPT !.player.st = "loading", !.player.unit = unit,
                  !.player.owner = "handler",
                  !.player.cbSet = TRUE, !.player.cbLive = TRUE]

\* playCompleteAudio up to its first await; the handler's tail follows at
\* once when nothing is played
playCompleteAudio(s, suspended) ==
    IF Len(s.audioQueue) = 0 \/ s.audioContext = 0
    THEN audioEndTail([s EXCEPT !.isPlaying = FALSE])
    ELSE LET s1 == [s EXCEPT !.isPlaying = TRUE]
         IN IF suspended
            THEN [s1 EXCEPT !.waiters.resume = @ + 1]
            ELSE startPlayback(s1)

\* audioPlayer.onended, as assigned by playCompleteAudio
playerOnended(s) ==
    LET s1 == [s EXCEPT !.isPlaying = FALSE]
    IN IF s1.player.cbLive
       THEN audioEndTail([s1 EXCEPT !.player.cbLive = FALSE])
       ELSE s1

\* playPromise.catch of playCompleteAudio
playPromiseCatch(s) ==
    LET s1 == [s EXCEPT !.isPlaying = FALSE]
    IN IF s1.player.cbLive
       THEN audioEndTail([s1 EXCEPT !.player.cbLive = FALSE])
       ELSE s1

\* the audioPlayer unlock of socket.onopen
unlockPlayer(s) ==
    [setSrc(s) EXCEPT !.player.st = "loading", !.player.unit = <<>>,
                      !.player.owner = "unlock"]

---------------------------------------------------------------------------
(* handleMessage(data), up to its first await *)

MessageTypes == {"user_transcript", "assistant_message", "audio_start",
                 "audio_chunk", "audio_end", "audio_error",
                 "user_interruption", "error"}

\* handleMessage with a default case that ends the assistant's turn
handleMessageDefaultCase(s, type, text, chunk, suspended) ==
    CASE type = "user_transcript" -> s
      [] type = "assistant_message" ->
            IF variant = "part_001"
            THEN [s EXCEPT !.lastAssistantText = text]
            ELSE s
      [] type = "audio_start" ->
            LET s1 == [s EXCEPT !.isSpeaking = TRUE]
                s2 == IF s1.recognition # 0 THEN recStop(s1) ELSE s1
                s3 == [s2 EXCEPT !.audioQueue = <<>>]
            IN IF variant = "part_001"
               THEN [s3 EXCEPT !.isPlaying = FALSE]
               ELSE s3
      [] type = "audio_chunk" ->
            IF variant = "part_001"
            THEN [s EXCEPT !.audioQueue = Append(@, chunk)]
            ELSE queueAudioChunk(s, chunk, suspended)
      [] type = "audio_end" ->
            IF variant = "part_001"
            THEN playCompleteAudio(s, suspended)
            ELSE waitForAudioEnd(s)
      [] type = "audio_error" ->
            IF s.isListening /\ s.recognition # 0 THEN bareStart(s) ELSE s
      [] OTHER -> [s EXCEPT !.isSpeaking = FALSE]

handleMessage(s, type, text, chunk, suspended) ==
    CASE type = "user_transcript" -> s
      [] type = "assistant_message" ->
            IF variant = "part_001"
            THEN [s EXCEPT !.lastAssistantText = text]
            ELSE s
      [] type = "audio_start" ->
            LET s1 == [s EXCEPT !.isSpeaking = TRUE]
                s2 == IF s1.recognition # 0 THEN recStop(s1) ELSE s1
                s3 == [s2 EXCEPT !.audioQueue = <<>>]
            IN IF variant = "part_001"
               THEN [s3 EXCEPT !.isPlaying = FALSE]
               ELSE s3
      [] type = "audio_chunk" ->
            IF variant = "part_001"
            THEN [s EXCEPT !.audioQueue = Append(@, chunk)]
            ELSE queueAudioChunk(s, chunk, suspended)
      [] type = "audio_end" ->
            IF variant = "part_001"
            THEN playCompleteAudio(s, suspended)
            ELSE waitForAudioEnd(s)
      [] type = "audio_error" ->
            IF s.isListening /\ s.recognition # 0 THEN bareStart(s) ELSE s
      [] OTHER -> s

---------------------------------------------------------------------------
(* startConversation and socket.onopen *)

\* the WebSocket, SpeechRecognition and AudioContext objects are numbered in
\* the order the sockets are constructed
FreshId == CHOOSE i \in Ids : sockState[i] = "none" /\ \A j \in 1..(i - 1) : sockState[j] # "none"

startConversation(s, id) ==
    [s EXCEPT !.socket = id, !.sockState[id] = "connecting", !.isListening = TRUE]

\* startRecognition()
startRecognition(s, id) ==
    [s EXCEPT !.recognition = id, !.recState[id] = "started", !.started = TRUE]

\* socket.onopen of socket id
socketOnopen(s, id) ==
    LET s1 == [s EXCEPT !.audioContext = id, !.ctxState[id] = "running"]
        s2 == IF variant = "part_001" THEN unlockPlayer(s1) ELSE s1
    IN startRecognition(s2, id)

---------------------------------------------------------------------------
(* The turn state of the specification, kept beside the program:           *)
(*   Idle        no session, or its socket not open yet                    *)
(*   Listening   the session's socket is open                              *)
(*   Processing  a user_message was sent, no audio_start handled since     *)
(*   Speaking    an audio_start was handled, no audio_end since            *)
(*   Ending      that audio_end was handled and its playback goes on       *)

\* drained: the queue is empty and nothing is sounding or about to
Drained(s) ==
    IF variant = "part_001"
    THEN /\ s.waiters.resume = 0
         /\ s.player.st = "idle" \/ s.player.owner # "handler"
    ELSE /\ s.plays = <<>>
         /\ s.audioQueue = <<>>

TurnAfter(op, id, s) ==
    IF s.stops > 0 THEN "Idle"
    ELSE IF op = "onopen" /\ turn = "Idle" /\ s.isListening /\ s.socket = id
         THEN "Listening"
    ELSE IF s.sent /\ turn = "Listening" THEN "Processing"
    ELSE IF op = "audio_start" /\ turn # "Idle" THEN "Speaking"
    ELSE IF op = "audio_end" /\ turn = "Speaking"
         THEN IF Drained(s) THEN "Listening" ELSE "Ending"
    ELSE IF turn = "Ending" /\ Drained(s) THEN "Listening"
    ELSE turn

\* the number of chunks the batch player has received since the latest
\* audio_start of the session; -1 when there has been none
SinceStartAfter(op, s) ==
    IF variant # "part_001" \/ s.stops > 0 THEN -1
    ELSE IF op = "audio_start" THEN 0
    ELSE IF op = "audio_chunk" /\ sinceStart >= 0 THEN sinceStart + 1
    ELSE sinceStart

\* one task of the event loop: an operation on object id ends in state s;
\* ev keeps what the task put out
Step(op, id, s) ==
    /\ Commit(s)
    /\ turn' = TurnAfter(op, id, s)
    /\ ev' = [sent |-> s.sent, started |-> s.started, threw |-> s.threw,
              stops |-> s.stops]
    /\ sinceStart' = SinceStartAfter(op, s)
    /\ UNCHANGED <<variant, capVars, echoVars>>

Task(op, id, s) == Step(op, id, s) /\ UNCHANGED nChunks

---------------------------------------------------------------------------
(* The user *)

\* toggleConversation, isListening false
ClickStart(maxSessions) ==
    /\ ~isListening
    /\ \E i \in 1..maxSessions : sockState[i] = "none"
    /\ Task("click_start", FreshId, startConversation(Cur, FreshId))

\* toggleConversation, isListening true
ClickStop ==
    /\ isListening
    /\ Task("click_stop", 0, stopConversation(Cur))

(* The sockets *)

OnOpen(id) ==
    /\ sockState[id] = "connecting"
    /\ Task("onopen", id, socketOnopen([Cur EXCEPT !.sockState[id] = "open"], id))

SocketOpen == \E id \in Ids : OnOpen(id)

\* the connection closes cleanly: the close event
OnClose(id) ==
    /\ sockState[id] \in {"open", "closing"}
    /\ Task("onclose", id, stopConversation([Cur EXCEPT !.sockState[id] = "closed"]))

SocketClose == \E id \in Ids : OnClose(id)

\* the connection fails: the error event, then the close event, in one task
OnError(id) ==
    /\ sockState[id] \in {"connecting", "open", "closing"}
    /\ Task("onerror", id,
            stopConversation(stopConversation([Cur EXCEPT !.sockState[id] = "closed"])))

SocketFail == \E id \in Ids : OnError(id)

\* socket.onmessage for every type but audio_chunk
OnMessage(id, type, text, suspended) ==
    /\ sockState[id] = "open"
    /\ type # "audio_chunk"
    /\ suspended => type = "audio_end" /\ variant = "part_001"
    /\ text # <<>> <=> type = "assistant_message"
    /\ Task(type, id, handleMessage(Cur, type, text, 0, suspended))

Message ==
    \E id \in Ids, type \in MessageTypes, text \in AssistantTexts \cup {<<>>},
       suspended \in BOOLEAN : OnMessage(id, type, text, suspended)

\* socket.onmessage for an audio_chunk; chunks are numbered as they arrive
OnChunk(id, suspended, maxChunks) ==
    /\ sockState[id] = "open"
    /\ nChunks < maxChunks
    /\ suspended => variant = "script"
    /\ Step("audio_chunk", id,
            handleMessage(Cur, "audio_chunk", <<>>, nChunks + 1, suspended))
    /\ nChunks' = nChunks + 1

MessageChunk(maxChunks) ==
    \E id \in Ids, suspended \in BOOLEAN : OnChunk(id, suspended, maxChunks)

(* The recognizers *)

\* what an onresult event carries: interim results only, a final transcript
\* that is blank, one that echoes the assistant's last text, or another
ResultKind(final) ==
    IF final = <<>> THEN "interim"
    ELSE IF trim(final) = <<>> THEN "blank"
    ELSE IF isEcho(trim(final), lastAssistantText) THEN "echo"
    ELSE "final"

\* a result event of recognizer id; after stop() the recognizer may still
\* return what it has heard
OnResult(id, final) ==
    /\ recState[id] \in {"started", "stopping"}
    /\ Task("onresult", id, onresult(Cur, final))

RecResult == \E id \in Ids, final \in UserTexts \cup {<<>>} : OnResult(id, final)

\* an error event of recognizer id; its end event follows
OnRecError(id, error) ==
    /\ recState[id] = "started"
    /\ Task("onerror_rec", id, onerror([Cur EXCEPT !.recState[id] = "stopping"], error))

RecError == \E id \in Ids, error \in {"no-speech", "network"} : OnRecError(id, error)

\* the end event of recognizer id, on its own or after stop() or an error
OnEnd(id) ==
    /\ recState[id] \in {"started", "stopping"}
    /\ Task("onend", id, onend([Cur EXCEPT !.recState[id] = "idle"]))

RecEnd == \E id \in Ids : OnEnd(id)

(* The timers *)

RestartTimer ==
    /\ timers.restart > 0
    /\ Task("timer_restart", 0, restartCallback([Cur EXCEPT !.timers.restart = @ - 1]))

CooldownTimer ==
    /\ timers.cooldown > 0
    /\ Task("timer_cooldown", 0, cooldownCallback([Cur EXCEPT !.timers.cooldown = @ - 1]))

RetryTimer ==
    \E suspended \in BOOLEAN :
        /\ timers.retry > 0
        /\ Task("timer_retry", 0,
                playAudioQueue([Cur EXCEPT !.timers.retry = @ - 1], suspended))

\* the 100 ms timer inside the loop of waitForAudioEnd
PollTimer ==
    /\ waiters.poll > 0
    /\ Task("timer_poll", 0, pollTick(Cur))

\* the 500 ms timer that ends waitForAudioEnd; the audio_end case goes on
DelayTimer ==
    /\ waiters.delay > 0
    /\ Task("timer_delay", 0, audioEndTail([Cur EXCEPT !.waiters.delay = @ - 1]))

(* The audio devices, script.js *)

\* audioContext.resume() of playAudioQueue settles; on a closed context it
\* may reject, and nothing catches that
PlayResumeSettled ==
    \E i \in DOMAIN plays, ok \in BOOLEAN :
        /\ plays[i].ph = "resume"
        /\ ok \/ ctxState[plays[i].ctx] = "closed"
        /\ Task("resume_settled", 0,
                IF ok
                THEN combineAndDecode([Cur EXCEPT !.plays = RemoveAt(@, i)])
                ELSE [Cur EXCEPT !.plays = RemoveAt(@, i), !.threw = TRUE])

DecodeSettled ==
    \E i \in DOMAIN plays, ok \in BOOLEAN :
        /\ plays[i].ph = "decode"
        /\ Task("decode_settled", 0, decodeSettled(Cur, i, ok))

SourceEnded ==
    \E i \in DOMAIN plays, suspended \in BOOLEAN :
        /\ plays[i].ph = "sound"
        /\ Task("source_ended", 0, sourceOnended(Cur, i, suspended))

\* a source of a closed context falls silent; whether its ended event is
\* still dispatched is up to the browser
SourceDropped ==
    \E i \in DOMAIN plays :
        /\ plays[i].ph = "sound"
        /\ ctxState[plays[i].ctx] = "closed"
        /\ Task("source_dropped", 0, [Cur EXCEPT !.plays = RemoveAt(@, i)])

(* The audio devices, part_001 *)

\* audioContext.resume() of playCompleteAudio settles; a rejection is caught
CompleteResumeSettled ==
    /\ waiters.resume > 0
    /\ Task("resume_settled", 0, startPlayback([Cur EXCEPT !.waiters.resume = @ - 1]))

\* the promise of audioPlayer.play() resolves: the element sounds
PlayResolved ==
    /\ player.st = "loading"
    /\ Task("play_resolved", 0, [Cur EXCEPT !.player.st = "playing"])

\* the promise of audioPlayer.play() rejects
PlayRejected ==
    /\ player.st = "loading"
    /\ Task("play_rejected", 0,
            IF player.owner = "handler"
            THEN playPromiseCatch([Cur EXCEPT !.player.st = "idle"])
            ELSE [Cur EXCEPT !.player.st = "idle"])

\* the element plays to its end: the ended event
PlayerEnded ==
    /\ player.st = "playing"
    /\ Task("player_ended", 0,
            IF player.cbSet
            THEN playerOnended([Cur EXCEPT !.player.st = "idle"])
            ELSE [Cur EXCEPT !.player.st = "idle"])

\* the element stops on a media error: an error event, no ended event
PlayerError ==
    /\ player.st = "playing"
    /\ Task("player_error", 0, [Cur EXCEPT !.player.st = "idle"])

---------------------------------------------------------------------------
(* The specification of the client *)

NoEvent == [sent |-> FALSE, started |-> FALSE, threw |-> FALSE, stops |-> 0]

\* AudioCaptureProcessor constructor
CaptureIdle ==
    /\ capBuffer = <<>>
    /\ capPosted = <<>>
    /\ capReceived = 0
    /\ capStale = 0
    /\ capCalls = 0

\* isEcho has not been called on its own
EchoIdle ==
    /\ echoUser = <<>>
    /\ echoAssistant = <<>>
    /\ echoResult = "unchecked"

\* the module-level initial values
PageLoaded ==
    /\ socket = 0
    /\ sockState = [i \in Ids |-> "none"]
    /\ recognition = 0
    /\ recState = [i \in Ids |-> "none"]
    /\ isListening = FALSE
    /\ isSpeaking = FALSE
    /\ isPlaying = FALSE
    /\ audioContext = 0
    /\ ctxState = [i \in Ids |-> "none"]
    /\ audioQueue = <<>>
    /\ lastAssistantText = <<>>
    /\ timers = [restart |-> 0, cooldown |-> 0, retry |-> 0]
    /\ waiters = [poll |-> 0, delay |-> 0, resume |-> 0]
    /\ plays = <<>>
    /\ player = [st |-> "idle", unit |-> <<>>, owner |-> "none",
                 cbSet |-> FALSE, cbLive |-> FALSE]
    /\ nChunks = 0
    /\ sinceStart = -1
    /\ turn = "Idle"
    /\ ev = NoEvent

Init ==
    /\ variant \in {"script", "part_001"}
    /\ PageLoaded
    /\ CaptureIdle
    /\ EchoIdle

Next ==
    \/ ClickStart(MaxSessions)
    \/ ClickStop
    \/ SocketOpen
    \/ SocketClose
    \/ SocketFail
    \/ Message
    \/ MessageChunk(MaxChunks)
    \/ RecResult
    \/ RecError
    \/ RecEnd
    \/ RestartTimer
    \/ CooldownTimer
    \/ RetryTimer
    \/ PollTimer
    \/ DelayTimer
    \/ PlayResumeSettled
    \/ DecodeSettled
    \/ SourceEnded
    \/ SourceDropped
    \/ CompleteResumeSettled
    \/ PlayResolved
    \/ PlayRejected
    \/ PlayerEnded
    \/ PlayerError

\* one session, with all that playback can do
Spec == Init /\ [][Next]_vars

\* Several sessions, one after the other.  With FewChunks chunks the retry
\* timer of playAudioQueue is never armed (it takes a chunk queued while
\* another is being decoded), so RetryTimer is left out.
NextSessions ==
    \/ ClickStart(ManySessions)
    \/ ClickStop
    \/ SocketOpen
    \/ SocketClose
    \/ SocketFail
    \/ Message
    \/ MessageChunk(FewChunks)
    \/ RecResult
    \/ RecError
    \/ RecEnd
    \/ RestartTimer
    \/ CooldownTimer
    \/ PollTimer
    \/ DelayTimer
    \/ PlayResumeSettled
    \/ DecodeSettled
    \/ SourceEnded
    \/ SourceDropped
    \/ CompleteResumeSettled
    \/ PlayResolved
    \/ PlayRejected
    \/ PlayerEnded
    \/ PlayerError

SpecSessions == Init /\ [][NextSessions]_vars

---------------------------------------------------------------------------
(* The capture worklet, AudioCaptureProcessor (part_000).                  *)
(* A float sample is held as an integer number of 1/SampleUnit; the i-th   *)
(* sample the device delivers is SampleAt(i), so that a sample lost,       *)
(* doubled or out of place shows.                                          *)

targetSamples == 8192

\* the sizes of the blocks the device delivers
BlockLens == {0, 3000, 8192}

SamplePattern == <<-6, -4, -3, -1, 0, 1, 2, 4, 7>>

SampleAt(i) == SamplePattern[(i % Len(SamplePattern)) + 1]

\* the block of len samples that follows n samples
BlockAfter(n, len) == [k \in 1..len |-> SampleAt(n + k)]

Max(a, b) == IF a >= b THEN a ELSE b
Min(a, b) == IF a <= b THEN a ELSE b

\* the conversion of an Int16Array store: truncation toward zero
truncate(num, den) ==
    IF num >= 0 THEN num \div den ELSE -((-num) \div den)

\* s < 0 ? s * 0x8000 : s * 0x7FFF, of the clamped sample
floatToInt16(q) ==
    LET s == Max(-SampleUnit, Min(SampleUnit, q))
    IN IF s < 0 THEN truncate(s * 32768, SampleUnit)
       ELSE truncate(s * 32767, SampleUnit)

\* process with > in place of >=: a buffer of exactly targetSamples waits
processStrict(buffer, input) ==
    IF Len(input) = 0 \/ Len(input[1]) = 0
    THEN [buffer |-> buffer, posted |-> <<>>]
    ELSE LET newBuffer == buffer \o input[1]
         IN IF Len(newBuffer) > targetSamples
            THEN [buffer |-> <<>>,
                  posted |-> <<[i \in 1..Len(newBuffer) |-> floatToInt16(newBuffer[i])]>>]
            ELSE [buffer |-> newBuffer, posted |-> <<>>]

\* process(inputs): input is inputs[0], a sequence of channels.  The result
\* is the new buffer and the messages posted.
process(buffer, input) ==
    IF Len(input) = 0 \/ Len(input[1]) = 0
    THEN [buffer |-> buffer, posted |-> <<>>]
    ELSE LET newBuffer == buffer \o input[1]
         IN IF Len(newBuffer) >= targetSamples
            THEN [buffer |-> <<>>,
                  posted |-> <<[i \in 1..Len(newBuffer) |-> floatToInt16(newBuffer[i])]>>]
            ELSE [buffer |-> newBuffer, posted |-> <<>>]

\* the device delivers a block of len samples on the given number of channels
\* (the second channel, when there is one, is silence)
Process(channels, len) ==
    /\ capCalls < MaxCalls
    /\ channels = 0 => len = 0
    /\ LET block == BlockAfter(capReceived, len)
           input == CASE channels = 0 -> <<>>
                      [] channels = 1 -> <<block>>
                      [] OTHER -> <<block, [k \in 1..len |-> 0]>>
           r     == process(capBuffer, input)
           stale == capStale + (IF turn = "Listening" THEN 0 ELSE len)
       IN /\ capBuffer' = r.buffer
          /\ capPosted' = capPosted \o
                [i \in 1..Len(r.posted) |->
                    [buffer |-> r.posted[i], turn |-> turn, stale |-> stale]]
          /\ capStale' = IF r.posted = <<>> THEN stale ELSE 0
          /\ capReceived' = capReceived + len
          /\ capCalls' = capCalls + 1
    /\ UNCHANGED <<variant, progVars, nChunks, sinceStart, turn, ev, echoVars>>

CaptureProcess == \E channels \in 0..2, len \in BlockLens : Process(channels, len)

\* the client moves to another turn state; the worklet is not told
CaptureTurn ==
    /\ turn' = IF turn = "Listening" THEN "Speaking" ELSE "Listening"
    /\ UNCHANGED <<variant, progVars, nChunks, sinceStart, ev, capVars, echoVars>>

NextCapture ==
    \/ CaptureProcess
    \/ CaptureTurn

\* the worklet runs beside the streaming client (script.js)
InitCapture == Init /\ variant = "script"

SpecCapture == InitCapture /\ [][NextCapture]_vars

---------------------------------------------------------------------------
(* Properties of the turn discipline *)

ResultEvent == \E id \in Ids, final \in UserTexts \cup {<<>>} : OnResult(id, final)

FinalResultEvent ==
    \E id \in Ids, final \in UserTexts :
        /\ ResultKind(final) = "final"
        /\ OnResult(id, final)

SessionOpen == isListening /\ socket # 0 /\ sockState[socket] = "open"

RecognizerStarted == recognition # 0 /\ recState[recognition] = "started"

\* C1: while the turn state is Speaking, from the handling of an audio_start
\* until the playback the following audio_end triggers has finished, no
\* recognizer result event sends a user_message.
C1_NoSendWhileSpeaking ==
    [][(turn \in {"Speaking", "Ending"} /\ ResultEvent) => ~ev'.sent]_vars

\* C2: while the turn state is Processing, after a user_message was sent and
\* before the next audio_start is handled, no recognizer result sends a
\* further user_message.
C2_NoSendWhileProcessing ==
    [][(turn = "Processing" /\ ResultEvent) => ~ev'.sent]_vars

\* C3: after an audio_end handled with playback still to do, the recognizer
\* is not started again before playback has drained.
C3_NoStartBeforeDrained ==
    [][(turn = "Ending" /\ turn' = "Ending") => ~ev'.started]_vars

---------------------------------------------------------------------------
(* Properties of session teardown *)

\* the program's variables in a state record
ProgramFields(s) ==
    <<s.socket, s.sockState, s.recognition, s.recState, s.isListening,
      s.isSpeaking, s.isPlaying, s.audioContext, s.ctxState, s.audioQueue,
      s.lastAssistantText, s.timers, s.waiters, s.plays, s.player>>

\* C4: stopConversation is idempotent: from any reachable state, calling it
\* twice in succession raises no error and yields the same state as calling it
\* once, with isListening false, recognition, socket and audioContext null,
\* the audio queue empty and isPlaying false.
C4_StopIdempotent ==
    LET once  == stopConversation(Cur)
        twice == stopConversation(once)
    IN /\ ProgramFields(twice) = ProgramFields(once)
       /\ ~twice.threw
       /\ ~twice.isListening
       /\ twice.recognition = 0
       /\ twice.socket = 0
       /\ twice.audioContext = 0
       /\ twice.audioQueue = <<>>
       /\ ~twice.isPlaying

\* a socket failed in a running session: its error and close handlers have
\* both called stopConversation, which found a recognizer and a context
C4_StoppedTwice ==
    /\ ev.stops = 2
    /\ ~isListening
    /\ \E i \in Ids : recState[i] = "stopping" /\ ctxState[i] = "closed"

AcceptsFinal ==
    \A final \in UserTexts :
        ResultKind(final) = "final" => onresult(Cur, final).sent

\* C6: turn state does not persist across sessions: once the socket of a
\* session has opened (no socket of an earlier session being still alive)
\* the session is in Listening, i.e. a non-echo final transcript is
\* transmitted.
C6_FreshSessionListens ==
    [][(\E id \in Ids :
            /\ socket = id
            /\ isListening
            /\ \A i \in Ids \ {id} : sockState[i] \notin {"connecting", "open"}
            /\ OnOpen(id))
       => AcceptsFinal']_vars

\* C10: after an audio_error is handled in an active session in Listening,
\* Processing or Speaking, the recognizer is started and a non-echo final
\* transcript is transmitted.
C10_AudioErrorListens ==
    [][(/\ SessionOpen
        /\ turn \in {"Listening", "Processing", "Speaking"}
        /\ OnMessage(socket, "audio_error", <<>>, FALSE))
       => (RecognizerStarted' /\ AcceptsFinal')]_vars

---------------------------------------------------------------------------
(* Properties of the capture worklet *)

\* C7: the capture accumulator emits no chunk while the turn state is not
\* Listening, and no emitted chunk holds samples that were received while
\* the turn state was not Listening.
C7_CaptureGated ==
    \A i \in DOMAIN capPosted :
        /\ capPosted[i].turn = "Listening"
        /\ capPosted[i].stale = 0

\* the samples of all posted chunks, oldest first
RECURSIVE Flatten(_)
Flatten(posted) ==
    IF posted = <<>> THEN <<>>
    ELSE Flatten(SubSeq(posted, 1, Len(posted) - 1)) \o posted[Len(posted)].buffer

\* C8: a process() call emits exactly one chunk if and only if the buffer
\* after appending the block holds at least targetSamples samples; the chunk
\* holds all of them, unsplit, and the buffer is then empty; after every call
\* the buffer is shorter than targetSamples and the emitted chunks followed
\* by the buffer are the samples received, in order; a call with an empty
\* input changes nothing and emits nothing.
C8_AccumulatorExact ==
    [][capCalls' = capCalls + 1 =>
        LET len     == capReceived' - capReceived
            total   == Len(capBuffer) + len
            emitted == Len(capPosted') - Len(capPosted)
            kept    == capReceived' - Len(capBuffer')
        IN /\ emitted = (IF len > 0 /\ total >= targetSamples THEN 1 ELSE 0)
           /\ SubSeq(capPosted', 1, Len(capPosted)) = capPosted
           /\ emitted = 1 =>
                /\ Len(capPosted'[Len(capPosted')].buffer) = total
                /\ capBuffer' = <<>>
           /\ len = 0 => capBuffer' = capBuffer
           /\ Len(capBuffer') < targetSamples
           /\ Flatten(capPosted') = [k \in 1..kept |-> floatToInt16(SampleAt(k))]
           /\ capBuffer' = [k \in 1..Len(capBuffer') |-> SampleAt(kept + k)]
      ]_vars

\* a chunk longer than targetSamples was emitted whole, and samples have been
\* buffered since
C8_LongChunkEmitted ==
    /\ \E i \in DOMAIN capPosted : Len(capPosted[i].buffer) > targetSamples
    /\ Len(capBuffer) > 0

---------------------------------------------------------------------------
(* Restart of the recognizer.  A callback given to setTimeout is run once  *)
(* its delay has passed: the restart timer is weakly fair.  Nothing else   *)
(* is assumed to happen.                                                   *)

SpecLive == Spec /\ WF_vars(RestartTimer)

\* the recognizer of the session has ended and the turn state is Listening
RecognizerEnded ==
    /\ isListening
    /\ turn = "Listening"
    /\ recognition # 0
    /\ recState[recognition] = "idle"

\* C9: whenever the recognizer has ended while the session is active and the
\* turn state is Listening, it is eventually started again, unless the
\* session is stopped.
C9_RecognizerRestarted ==
    RecognizerEnded ~> (RecognizerStarted \/ ~isListening)

\* the recognizer ended in Listening and its restart is pending
C9_EndedWhileListening ==
    /\ RecognizerEnded
    /\ timers.restart > 0

---------------------------------------------------------------------------
(* Properties of message handling *)

\* C11: when a user_interruption message is handled, the pending playback
\* queue is cleared at once: in every state in which the session's socket
\* can deliver the message, the handler leaves the queue empty.
C11_InterruptionClearsQueue ==
    SessionOpen =>
        handleMessage(Cur, "user_interruption", <<>>, 0, FALSE).audioQueue = <<>>

\* C12: the echo reference is empty after session end: every task that stops
\* the session leaves lastAssistantText empty.
C12_EchoReferenceCleared ==
    [][ev'.stops > 0 => lastAssistantText' = <<>>]_vars

---------------------------------------------------------------------------
(* isEcho on its own (part_001): the two texts are drawn from the texts    *)
(* made of at most MaxWords tokens joined by single spaces, and the two    *)
(* texts of the example                                                    *)

\* tokens of a text, at most
MaxWords == 3

\* an empty token gives leading, trailing and doubled spaces
EchoTokens == {<<"t", "o">>, <<"H", "e", "l", "p">>, <<"y", "o", "u", "!">>, <<>>}

RECURSIVE TextsOf(_)
TextsOf(n) ==
    IF n = 0 THEN {<<>>}
    ELSE TextsOf(n - 1) \cup
         {t \o <<" ">> \o w : t \in TextsOf(n - 1) \ {<<>>}, w \in EchoTokens}
         \cup EchoTokens

TxtICanHelp == <<"I", " ", "c", "a", "n", " ", "h", "e", "l", "p", " ", "y", "o", "u", " ", "w", "i", "t", "h", " ", "t", "h", "a", "t">>
TxtHelpYou  == <<"h", "e", "l", "p", " ", "y", "o", "u", " ", "w", "i", "t", "h", " ", "t", "h", "a", "t">>

EchoTexts == TextsOf(MaxWords) \cup {TxtICanHelp, TxtHelpYou}

InitEcho ==
    /\ variant = "part_001"
    /\ PageLoaded
    /\ CaptureIdle
    /\ echoUser \in EchoTexts
    /\ echoAssistant \in EchoTexts
    /\ echoResult = "unchecked"

\* isEcho(userText, assistantText) is called
EchoCheck ==
    /\ echoResult = "unchecked"
    /\ echoResult' = IF isEcho(echoUser, echoAssistant) THEN "echo" ELSE "other"
    /\ UNCHANGED <<variant, progVars, nChunks, sinceStart, turn, ev, capVars, echoUser, echoAssistant>>

\* the texts are forgotten
EchoReset ==
    /\ echoResult # "unchecked"
    /\ echoResult' = "unchecked"
    /\ echoUser' = <<>>
    /\ echoAssistant' = <<>>
    /\ UNCHANGED <<variant, progVars, nChunks, sinceStart, turn, ev, capVars>>

NextEcho ==
    \/ EchoCheck
    \/ EchoReset

SpecEcho == InitEcho /\ [][NextEcho]_vars


---------------------------------------------------------------------------
(* Properties of isEcho *)

\* the words of a normalized text: its maximal runs of characters other
\* than the space
RECURSIVE WordsOf(_)
WordsOf(t) ==
    IF t = <<>> THEN <<>>
    ELSE IF Head(t) = " " THEN WordsOf(Tail(t))
    ELSE LET n == IF \E i \in DOMAIN t : t[i] = " "
                  THEN (CHOOSE i \in DOMAIN t :
                            t[i] = " " /\ \A j \in 1..(i - 1) : t[j] # " ") - 1
                  ELSE Len(t)
         IN <<SubSeq(t, 1, n)>> \o WordsOf(SubSeq(t, n + 1, Len(t)))

EitherContains ==
    LET u == normalizeText(echoUser)
        a == normalizeText(echoAssistant)
    IN includes(a, u) \/ includes(u, a)

\* the user's words of length > 2, and those that are among the assistant's
LongUserWords ==
    LET uw == WordsOf(normalizeText(echoUser))
    IN {i \in DOMAIN uw : Len(uw[i]) > 2}

SharedUserWords ==
    LET uw == WordsOf(normalizeText(echoUser))
        aw == WordsOf(normalizeText(echoAssistant))
    IN {i \in LongUserWords : uw[i] \in Range(aw)}

\* C13 as stated: isEcho returns true exactly when either normalized text
\* contains the other, or more than 60% of the user's words of length > 2
\* are among the assistant's words.
C13_EchoAsStated ==
    echoResult # "unchecked" =>
        (echoResult = "echo" <=>
            \/ EitherContains
            \/ 10 * Cardinality(SharedUserWords) > 6 * Cardinality(LongUserWords))

\* C13: isEcho returns true exactly when the assistant text is not empty,
\* the normalized user text has at least 5 characters, and either normalized
\* text contains the other or the user's words of length > 2 that are among
\* the assistant's words are more than 60% of all the user's words.
C13_EchoExactly ==
    echoResult # "unchecked" =>
        (echoResult = "echo" <=>
            /\ echoAssistant # <<>>
            /\ Len(normalizeText(echoUser)) >= 5
            /\ \/ EitherContains
               \/ 10 * Cardinality(SharedUserWords)
                      > 6 * Len(WordsOf(normalizeText(echoUser))))

\* the example: "help you with that" after "I can help you with that"
C13_ExampleIsEcho ==
    /\ echoUser = TxtHelpYou
    /\ echoAssistant = TxtICanHelp
    /\ echoResult = "echo"


\* the types of message that no case of handleMessage names
UnhandledTypes == {"user_interruption", "error"}

\* C14: an inbound message of a type the client does not handle is a no-op:
\* its task raises no error, sends nothing, starts and stops nothing, and
\* leaves isSpeaking, isListening, isPlaying, the audio queue, the echo
\* reference and every recognizer's status unchanged.
C14_UnhandledIsNoOp ==
    [][(\E id \in Ids, type \in UnhandledTypes : OnMessage(id, type, <<>>, FALSE)) =>
            /\ ~ev'.threw
            /\ ~ev'.sent
            /\ ~ev'.started
            /\ ev'.stops = 0
            /\ UNCHANGED <<isSpeaking, isListening, isPlaying, audioQueue,
                           lastAssistantText, recognition, recState>>
            /\ UNCHANGED progVars
      ]_vars

\* the state a message of an unhandled type leaves when it is delivered in
\* the middle of the assistant's turn: its task put nothing out, and every
\* field the message must not touch differs from its initial value
C14_UnhandledWhileSpeaking ==
    /\ SessionOpen
    /\ ev = NoEvent
    /\ isSpeaking
    /\ audioQueue # <<>>
    /\ recognition # 0 /\ recState[recognition] # "started"
    /\ variant = "part_001" => lastAssistantText # <<>>
    /\ variant = "script" => isPlaying


\* C15: inbound messages are handled without interleaving: once a later
\* audio_start has set isSpeaking, and until the next audio_end is handled or
\* the session is stopped, no task clears isSpeaking; in particular not the
\* tail of an earlier audio_end handler.
C15_MessagesNotInterleaved ==
    [][turn = "Speaking" /\ turn' = "Speaking" /\ isSpeaking => isSpeaking']_vars


---------------------------------------------------------------------------
(* The streaming player of script.js with more chunks *)

\* SpecStream: audio_chunk messages ever received
StreamChunks == 4

InitStream == Init /\ variant = "script"

NextStream ==
    \/ ClickStart(MaxSessions)
    \/ ClickStop
    \/ SocketOpen
    \/ SocketClose
    \/ SocketFail
    \/ Message
    \/ MessageChunk(StreamChunks)
    \/ RecResult
    \/ RecError
    \/ RecEnd
    \/ RestartTimer
    \/ CooldownTimer
    \/ RetryTimer
    \/ PollTimer
    \/ DelayTimer
    \/ PlayResumeSettled
    \/ DecodeSettled
    \/ SourceEnded
    \/ SourceDropped

SpecStream == InitStream /\ [][NextStream]_vars

\* the playback units being decoded or sounding on a context that is open
ActiveUnits ==
    {i \in DOMAIN plays : /\ plays[i].ph \in {"decode", "sound"}
                          /\ ctxState[plays[i].ctx] # "closed"}

\* chunk numbers in arrival order
Increasing(q) == \A a, b \in DOMAIN q : a < b => q[a] < q[b]

\* C16: in the streaming player, while the session is open, at most one
\* playback unit is sounding or being decoded, isPlaying is true whenever one
\* is, and the chunks are in arrival order with none twice: within a unit,
\* within the queue, from an earlier unit to a later one and from the units
\* to the queue.
C16_OnePlaybackHead ==
    SessionOpen =>
        /\ Cardinality(ActiveUnits) <= 1
        /\ ActiveUnits # {} => isPlaying
        /\ Increasing(audioQueue)
        /\ \A i \in DOMAIN plays :
            /\ Increasing(plays[i].unit)
            /\ \A a \in DOMAIN plays[i].unit, b \in DOMAIN audioQueue :
                   plays[i].unit[a] < audioQueue[b]
            /\ \A j \in DOMAIN plays : i < j =>
                   \A a \in DOMAIN plays[i].unit, b \in DOMAIN plays[j].unit :
                       plays[i].unit[a] < plays[j].unit[b]


---------------------------------------------------------------------------
(* Properties of the batch player (part_001) *)

\* a task reaches the play() call of playCompleteAudio: the audio_end handler
\* itself, or its continuation when audioContext.resume() has settled
BatchPlaybackStarts ==
    /\ variant = "part_001"
    /\ \/ CompleteResumeSettled
       \/ /\ audioQueue # <<>>
          /\ audioContext # 0
          /\ \E id \in Ids : OnMessage(id, "audio_end", <<>>, FALSE)

\* C17: in the batch player no playback starts between an audio_start and its
\* audio_end; the unit played is, in arrival order, exactly the chunks
\* received since the most recent audio_start; and the queue is empty once
\* playback has been started.
C17_BatchPlayedAtEnd ==
    [][BatchPlaybackStarts =>
            /\ ~(turn = "Speaking" /\ turn' = "Speaking")
            /\ sinceStart >= 0 =>
                   player'.unit = [k \in 1..sinceStart |-> nChunks - sinceStart + k]
            /\ audioQueue' = <<>>
      ]_vars


---------------------------------------------------------------------------
(* The end of the assistant's turn.  Timers fire, promises settle and a    *)
(* recognizer that was told to stop ends; a sound that plays stops, with  *)
(* its ended event or, for the audio element, on a media error without     *)
(* one.  These are weakly fair.  Nothing is assumed of the server, the     *)
(* user or the network.                                                    *)

SpecFair ==
    /\ Spec
    /\ WF_vars(RestartTimer)
    /\ WF_vars(CooldownTimer)
    /\ WF_vars(RetryTimer)
    /\ WF_vars(PollTimer)
    /\ WF_vars(DelayTimer)
    /\ WF_vars(PlayResumeSettled)
    /\ WF_vars(DecodeSettled)
    /\ WF_vars(CompleteResumeSettled)
    /\ WF_vars(PlayResolved \/ PlayRejected)
    /\ WF_vars(SourceEnded \/ SourceDropped)
    /\ WF_vars(PlayerEnded \/ PlayerError)
    /\ WF_vars(RecEnd)

\* an audio_end has been handled since the latest audio_start and isSpeaking
\* has not been cleared yet
AudioEndHandled ==
    /\ SessionOpen
    /\ isSpeaking
    /\ turn \in {"Listening", "Ending", "Processing"}

\* C18: in an active session every handled audio_end is eventually followed
\* by isSpeaking = false with the recognizer started again, unless the
\* session is stopped or the next audio_start is handled first; also when
\* the playback fails or never signals its end.
C18_TurnEnds ==
    AudioEndHandled ~> \/ ~isSpeaking /\ RecognizerStarted
                       \/ ~isListening
                       \/ turn = "Speaking"


---------------------------------------------------------------------------
(* Properties of the recognizer restarts *)

\* C19: the recognizer is not running while the turn state is Processing or
\* Speaking: no task that ends in one of these states has started a
\* recognizer or leaves the session's recognizer started.
C19_RecognizerOffWhileBusy ==
    [][turn' \in {"Processing", "Speaking"} =>
            /\ ~ev'.started
            /\ ~RecognizerStarted'
      ]_vars


\* a task that calls recognition.start() after the initial start: a restart
\* timer, the cool-down timer, or the audio_error case
LaterStartTask ==
    \/ RestartTimer
    \/ CooldownTimer
    \/ \E id \in Ids : OnMessage(id, "audio_error", <<>>, FALSE)

\* C20: a recognizer start issued after the initial one tolerates a
\* recognizer that is already started: no exception escapes the task, and
\* the recognizers and the flags of the session stay as they were.
C20_LaterStartTolerant ==
    [][(isListening /\ RecognizerStarted /\ LaterStartTask) =>
            /\ ~ev'.threw
            /\ ~ev'.started
            /\ UNCHANGED <<recognition, recState, isListening, isSpeaking, isPlaying>>
      ]_vars


---------------------------------------------------------------------------
(* Properties of the echo detection (part_001) *)

\* the session listens and the assistant has said something
ListeningForEcho ==
    /\ variant = "part_001"
    /\ SessionOpen
    /\ turn = "Listening"
    /\ ~isSpeaking
    /\ lastAssistantText # <<>>

\* C21: a final transcript classified as echo is discarded silently: in every
\* state in which the session listens, the result handler applied to such a
\* transcript sends nothing, throws nothing, stops and starts no recognizer,
\* changes no program variable and leaves the turn state Listening, and
\* applied next to a non-echo final transcript it transmits that one.
C21_EchoDiscardedSilently ==
    ListeningForEcho =>
        \A final \in UserTexts :
            ResultKind(final) = "echo" =>
                LET s == onresult(Cur, final)
                IN /\ ~s.sent
                   /\ ~s.threw
                   /\ ~s.started
                   /\ s.stops = 0
                   /\ ProgramFields(s) = ProgramFields(Cur)
                   /\ TurnAfter("onresult", recognition, s) = "Listening"
                   /\ \A later \in UserTexts :
                        ResultKind(later) = "final" => onresult(s, later).sent

\* the state an echo leaves: the session listens, the assistant's last text
\* is kept, the recognizer is still started and the task put nothing out
C21_EchoHeardWhileListening ==
    /\ ListeningForEcho
    /\ \E final \in UserTexts : ResultKind(final) = "echo"
    /\ RecognizerStarted
    /\ ev = NoEvent


---------------------------------------------------------------------------
(* Properties of overlapping sessions *)

\* C22: a session is torn down only by an explicit stop or by the close or
\* error event of its own socket: a task that ends the session is the click
\* that stops it or an event of the socket the session uses, never a late
\* event of the socket of a previous session.
C22_OnlyOwnSocketStops ==
    [][(isListening /\ ~isListening') =>
            \/ ClickStop
            \/ socket # 0 /\ (OnClose(socket) \/ OnError(socket))
      ]_vars


\* C23: whenever the session is idle (isListening false), no recognizer
\* instance and no audio context exists, and no recognizer is started.
C23_IdleHoldsNothing ==
    ~isListening =>
        /\ recognition = 0
        /\ audioContext = 0
        /\ \A id \in Ids : recState[id] # "started"


---------------------------------------------------------------------------
(* Properties of the cool-down timer *)

\* the state the cool-down timer's callback finds when it fires now
CooldownFires == [Cur EXCEPT !.timers.cooldown = @ - 1]

===========================================================================
